---- MODULE Spec2Model ----
(***************************************************************************)
(* A model of OllamaRAG_Multi.py: the text normalizer, the chunker, and    *)
(* the ingestion / load / query pipeline of RAGPipeline with its three     *)
(* storage artifacts (index, metadata, manifest).                          *)
(*                                                                         *)
(* Text is a sequence of characters; a character is a one-element name:    *)
(* "SP" space, "TAB" tab, "CR" carriage return, "LF" newline, "VT" any     *)
(* other whitespace character (stripped by str.strip, untouched by the     *)
(* regular expressions), anything else a printable character.  File names,  *)
(* sheet names, cells and citation tags are texts of the same kind.         *)
(***************************************************************************)
EXTENDS Integers, Sequences, FiniteSets, TLC

\* ------------------------------------------------------------------ bounds

\* Longest raw text given to normalize_ws in SpecNorm.
MaxNormLen == 5

\* Longest raw text given to chunk_text in SpecChunk.
MaxTextLen == 6

\* Largest chunk_chars and overlap tried in SpecChunk (overlap may reach and
\* exceed chunk_chars).
MaxChunkChars == 3

MaxOverlap == 3

\* Cap on the chunks one chunk_text call may append in the model: a call with
\* 0 <= overlap < chunk_chars appends at most Len(text) chunks, so the cap only
\* cuts a loop that does not advance.
MaxChunks == MaxTextLen + 2

\* ------------------------------------------------------------ text helpers

Min(a, b) == IF a < b THEN a ELSE b

Max(a, b) == IF a > b THEN a ELSE b

\* Characters str.strip() removes from both ends.
Whitespace == {"SP", "TAB", "CR", "LF", "VT"}

\* Characters of the class [ \t].
Blank == {"SP", "TAB"}

\* Alphabets the inputs are drawn from.
NormAlphabet == {"a", "SP", "TAB", "CR", "LF", "VT"}

ChunkAlphabet == {"a", "b", "SP"}

RECURSIVE StringsUpTo(_, _)
StringsUpTo(alphabet, n) ==
    IF n = 0 THEN {<<>>}
    ELSE LET shorter == StringsUpTo(alphabet, n - 1)
         IN  shorter \cup {Append(s, c) : s \in {t \in shorter : Len(t) = n - 1}, c \in alphabet}

\* Python's s[i:j] for 0 <= i <= j <= len(s).
Slice(s, i, j) == SubSeq(s, i + 1, j)

\* Length of the longest prefix of s made of characters of set.
RECURSIVE RunLength(_, _)
RunLength(s, set) ==
    IF s = <<>> \/ Head(s) \notin set THEN 0 ELSE 1 + RunLength(Tail(s), set)

\* n copies of the character c.
RECURSIVE Repeat(_, _)
Repeat(c, n) == IF n = 0 THEN <<>> ELSE <<c>> \o Repeat(c, n - 1)

\* ------------------------------------------------------------ normalize_ws

\* text.replace("\r\n", "\n"): left to right, non-overlapping.
RECURSIVE ReplaceCRLF(_)
ReplaceCRLF(s) ==
    IF s = <<>> THEN <<>>
    ELSE IF Len(s) >= 2 /\ s[1] = "CR" /\ s[2] = "LF"
         THEN <<"LF">> \o ReplaceCRLF(Slice(s, 2, Len(s)))
         ELSE <<Head(s)>> \o ReplaceCRLF(Tail(s))

\* text.replace("\r", "\n").
ReplaceCR(s) == [i \in 1..Len(s) |-> IF s[i] = "CR" THEN "LF" ELSE s[i]]

\* re.sub(r"[ \t]+", " ", text): every maximal run of blanks becomes one space.
RECURSIVE CollapseBlanks(_)
CollapseBlanks(s) ==
    IF s = <<>> THEN <<>>
    ELSE IF Head(s) \in Blank
         THEN <<"SP">> \o CollapseBlanks(Slice(s, RunLength(s, Blank), Len(s)))
         ELSE <<Head(s)>> \o CollapseBlanks(Tail(s))

\* re.sub(r"\n{3,}", "\n\n", text): every maximal run of three or more newlines
\* becomes two; shorter runs stay.
RECURSIVE CollapseNewlines(_)
CollapseNewlines(s) ==
    IF s = <<>> THEN <<>>
    ELSE IF Head(s) = "LF"
         THEN LET n == RunLength(s, {"LF"})
              IN  Repeat("LF", Min(n, 2)) \o CollapseNewlines(Slice(s, n, Len(s)))
         ELSE <<Head(s)>> \o CollapseNewlines(Tail(s))

\* text.strip().
RECURSIVE StripLeft(_)
StripLeft(s) ==
    IF s # <<>> /\ Head(s) \in Whitespace THEN StripLeft(Tail(s)) ELSE s

RECURSIVE StripRight(_)
StripRight(s) ==
    IF s # <<>> /\ s[Len(s)] \in Whitespace THEN StripRight(Slice(s, 0, Len(s) - 1)) ELSE s

Strip(s) == StripRight(StripLeft(s))

\* A slip in the order of the steps: the line endings are made uniform only
\* after the newline runs were collapsed.
normalize_ws_late_cr(text) ==
    Strip(ReplaceCR(ReplaceCRLF(CollapseNewlines(CollapseBlanks(text)))))

normalize_ws(text) ==
    Strip(CollapseNewlines(CollapseBlanks(ReplaceCR(ReplaceCRLF(text)))))

\* -------------------------------------------------------------- chunk_text

\* A slip: the next window starts where the previous one ended.
NextStartNoOverlap(end, overlap) == end

\* A slip: the overlap is taken one character short.
NextStartOffByOne(end, overlap) == Max(0, end - overlap + 1)

\* start = max(0, end - overlap)
NextStart(end, overlap) == Max(0, end - overlap)

\* A slip: windows one character short.
WindowEndShort(len, start, chunk_chars) == Min(len, start + chunk_chars - 1)

\* end = min(len(text), start + chunk_chars)
WindowEnd(len, start, chunk_chars) == Min(len, start + chunk_chars)

\* chunk_text as a function: the result of the loop of lines 65-70 started at
\* start with the chunks collected so far (defined for overlap < chunk_chars,
\* where the loop ends).
RECURSIVE ChunkLoop(_, _, _, _, _)
ChunkLoop(text, start, chunks, chunk_chars, overlap) ==
    IF start < Len(text)
    THEN LET end == WindowEnd(Len(text), start, chunk_chars)
             more == Append(chunks, Slice(text, start, end))
         IN  IF end = Len(text) THEN more
             ELSE ChunkLoop(text, NextStart(end, overlap), more, chunk_chars, overlap)
    ELSE chunks

chunk_text(text, chunk_chars, overlap) ==
    LET t == normalize_ws(text)
    IN  IF t = <<>> THEN <<>> ELSE ChunkLoop(t, 0, <<>>, chunk_chars, overlap)

\* ----------------------------------------------------- pipeline: configuration

\* PipelineConfig.chunk_chars, chunk_overlap and top_k, scaled down to the
\* model's short texts and small indexes.
CfgChunkChars == 2

CfgChunkOverlap == 1

CfgTopK == 2

\* Most ingest_folder calls in one behaviour.
MaxRuns == 2

\* ------------------------------------------------------ pipeline: file names

\* str.lower() on the characters that occur in the model's file names.
LowerChar(c) ==
    CASE c = "I" -> "i" [] c = "P" -> "p" [] c = "N" -> "n" [] c = "G" -> "g"
      [] OTHER -> c

Lower(s) == [i \in 1..Len(s) |-> LowerChar(s[i])]

\* Start (0-based) of the last path component of p.
BaseStart(p) ==
    LET seps == {i \in 1..Len(p) : p[i] = "/"}
    IN  IF seps = {} THEN 0 ELSE CHOOSE i \in seps : \A j \in seps : j <= i

\* os.path.splitext(p)[1]: from the last dot of the last component on, unless
\* that component has only leading dots before it.
SplitExt(p) ==
    LET b == BaseStart(p)
        dots == {i \in b + 1..Len(p) : p[i] = "." /\ \E j \in b + 1..i - 1 : p[j] # "."}
    IN  IF dots = {} THEN <<>>
        ELSE Slice(p, (CHOOSE i \in dots : \A j \in dots : j <= i) - 1, Len(p))

exts_pdf == {<<".", "p", "d", "f">>}

exts_img ==
    { <<".", "p", "n", "g">>, <<".", "j", "p", "g">>, <<".", "j", "p", "e", "g">>,
      <<".", "b", "m", "p">>, <<".", "t", "i", "f">>, <<".", "t", "i", "f", "f">>,
      <<".", "w", "e", "b", "p">> }

exts_txt ==
    { <<".", "t", "x", "t">>, <<".", "m", "d">>, <<".", "l", "o", "g">>,
      <<".", "j", "s", "o", "n">>, <<".", "x", "m", "l">>, <<".", "h", "t", "m", "l">> }

exts_csv == {<<".", "c", "s", "v">>}

exts_xlsx == {<<".", "x", "l", "s", "x">>, <<".", "x", "l", "s">>, <<".", "x", "l", "s", "m">>}

Supported(name) ==
    SplitExt(Lower(name)) \in (exts_pdf \cup exts_img \cup exts_txt \cup exts_csv \cup exts_xlsx)

\* os.path.relpath(path, folder).replace("\\", "/"); a name below is already the
\* path relative to the folder, written with the separators of the platform.
RelOf(name) == [i \in 1..Len(name) |-> IF name[i] = "\\" THEN "/" ELSE name[i]]

\* ------------------------------------------------------ pipeline: citation tags

Digit(d) == <<"0", "1", "2", "3", "4", "5", "6", "7", "8", "9">>[d + 1]

RECURSIVE Digits(_)
Digits(n) == IF n < 10 THEN <<Digit(n)>> ELSE Append(Digits(n \div 10), Digit(n % 10))

\* format(n, "03d") for n >= 0: at least three digits, zero padded.
Fmt03(n) == Repeat("0", Max(0, 3 - Len(Digits(n)))) \o Digits(n)

TagOpen == <<"[", "f", "i", "l", "e", ":">>

ChunkPart(ci) == <<"SP", "c">> \o Fmt03(ci) \o <<"]">>

\* f"[file:{rel} p{page:03d} c{ci:03d}]"
PdfTag(rel, page, ci) == TagOpen \o rel \o <<"SP", "p">> \o Fmt03(page) \o ChunkPart(ci)

\* f"[file:{rel} c{ci:03d}]"
PlainTag(rel, ci) == TagOpen \o rel \o ChunkPart(ci)

\* f"[file:{rel} row{r_i:03d} c000]"
CsvTag(rel, r_i) ==
    TagOpen \o rel \o <<"SP", "r", "o", "w">> \o Fmt03(r_i) \o <<"SP", "c", "0", "0", "0", "]">>

\* f"[file:{rel} sheet:{sheet_name} row{r_i:03d} c000]"
ExcelTag(rel, sheet_name, r_i) ==
    TagOpen \o rel \o <<"SP", "s", "h", "e", "e", "t", ":">> \o sheet_name
        \o <<"SP", "r", "o", "w">> \o Fmt03(r_i) \o <<"SP", "c", "0", "0", "0", "]">>

\* ------------------------------------------------------ pipeline: extraction

\* A metadata record.  None is written -1 for page and row and <<>> for sheet.
\* The record's "source" (the absolute path: the folder and rel) is left out.
Record(rel, file_type, page, sheet, row, chunk_id, tag, text) ==
    [rel |-> rel, file_type |-> file_type, page |-> page, sheet |-> sheet,
     row |-> row, chunk_id |-> chunk_id, tag |-> tag, text |-> text]

\* sep.join(parts)
RECURSIVE Join(_, _)
Join(sep, parts) ==
    IF parts = <<>> THEN <<>>
    ELSE IF Len(parts) = 1 THEN parts[1]
         ELSE parts[1] \o sep \o Join(sep, Tail(parts))

Bar == <<"SP", "|", "SP">>

\* OllamaOCR.ocr_image: the model's reply, normalized (line 122).
ocr_image(reply) == normalize_ws(reply)

\* Lines 279-289, 294-304, 309-319: one record per chunk of text, chunk_id from 0.
ChunkRecords(rel, file_type, page, text) ==
    LET chunks == chunk_text(text, CfgChunkChars, CfgChunkOverlap)
    IN  [k \in 1..Len(chunks) |->
            Record(rel, file_type, page, <<>>, -1, k - 1,
                   IF file_type = "pdf" THEN PdfTag(rel, page, k - 1) ELSE PlainTag(rel, k - 1),
                   chunks[k])]

\* Lines 276-289: the pages from page i on, page numbers from 1.
RECURSIVE PdfRecords(_, _, _)
PdfRecords(rel, pages, i) ==
    IF i > Len(pages) THEN <<>>
    ELSE ChunkRecords(rel, "pdf", i, ocr_image(pages[i])) \o PdfRecords(rel, pages, i + 1)

\* Lines 324-337: the rows from row i (1-based here, r_i = i - 1) on.
RECURSIVE CsvRecords(_, _, _)
CsvRecords(rel, rows, i) ==
    IF i > Len(rows) THEN <<>>
    ELSE LET line == Join(Bar, [j \in 1..Len(rows[i]) |-> Strip(rows[i][j])])
         IN  (IF Strip(line) = <<>> THEN <<>>
              ELSE <<Record(rel, "csv", -1, <<>>, i - 1, 0, CsvTag(rel, i - 1), line)>>)
             \o CsvRecords(rel, rows, i + 1)

NanLike == {<<"n", "a", "n">>, <<"n", "o", "n", "e">>}

\* RAGPipeline._format_df_row: the "col=value" parts from column j on.
RECURSIVE RowParts(_, _, _)
RowParts(cols, values, j) ==
    IF j > Len(cols) \/ j > Len(values) THEN <<>>
    ELSE LET v == Strip(values[j])
         IN  (IF v = <<>> \/ Lower(v) \in NanLike THEN <<>>
              ELSE <<cols[j] \o <<"=">> \o v>>)
             \o RowParts(cols, values, j + 1)

_format_df_row(cols, values) == Strip(Join(Bar, RowParts(cols, values, 1)))

\* Lines 353-354: the column names stripped, an empty one named col<j>.
NormalizeCols(columns) ==
    [j \in 1..Len(columns) |->
        IF Strip(columns[j]) = <<>> THEN <<"c", "o", "l">> \o Digits(j - 1)
        ELSE Strip(columns[j])]

\* Lines 359-374: the rows of one sheet from row i (r_i = i - 1) on.
RECURSIVE SheetRecords(_, _, _)
SheetRecords(rel, sheet, i) ==
    IF i > Len(sheet.rows) THEN <<>>
    ELSE LET line == _format_df_row(NormalizeCols(sheet.columns), sheet.rows[i])
         IN  (IF Strip(line) = <<>> THEN <<>>
              ELSE <<Record(rel, "excel", -1, sheet.name, i - 1, 0,
                            ExcelTag(rel, sheet.name, i - 1), line)>>)
             \o SheetRecords(rel, sheet, i + 1)

\* Lines 348-374: the sheets from sheet k on; an empty sheet is skipped.
RECURSIVE ExcelRecords(_, _, _)
ExcelRecords(rel, sheets, k) ==
    IF k > Len(sheets) THEN <<>>
    ELSE (IF sheets[k].rows = <<>> \/ sheets[k].columns = <<>> THEN <<>>
          ELSE SheetRecords(rel, sheets[k], 1))
         \o ExcelRecords(rel, sheets, k + 1)

\* The branch of lines 272-374 a file takes.
FileType(name) ==
    LET ext == SplitExt(Lower(name))
    IN  IF ext = <<".", "p", "d", "f">> THEN "pdf"
        ELSE IF ext \in exts_img THEN "image"
        ELSE IF ext \in exts_txt THEN "text"
        ELSE IF ext \in exts_csv THEN "csv"
        ELSE IF ext \in exts_xlsx THEN "excel"
        ELSE "none"

\* The records lines 272-374 append for file f when no step raises.
FileRecords(f) ==
    LET rel == RelOf(f.name)
        t == FileType(f.name)
    IN  CASE t = "pdf" -> PdfRecords(rel, f.pages, 1)
          [] t = "image" -> ChunkRecords(rel, "image", -1, ocr_image(f.pages[1]))
          [] t = "text" -> ChunkRecords(rel, "text", -1, normalize_ws(f.text))
          [] t = "csv" -> CsvRecords(rel, f.rows, 1)
          [] t = "excel" -> ExcelRecords(rel, f.sheets, 1)
          [] OTHER -> <<>>

\* --------------------------------------------------------- pipeline: the folders

\* A file: its path relative to the folder, and what its bytes hold: the text of
\* a text file, what the OCR model replies for each page of a PDF (the single
\* page of an image), the rows of a CSV file as csv.reader yields them, the
\* sheets of a workbook as pandas reads them, and the SHA-256 of the bytes.
FileOf(name, text, pages, rows, sheets, sha) ==
    [name |-> name, text |-> text, pages |-> pages, rows |-> rows, sheets |-> sheets, sha |-> sha]

\* n.txt: "abc"
NoteTxt == FileOf(<<"n", ".", "t", "x", "t">>, <<"a", "b", "c">>, <<>>, <<>>, <<>>, 1)

\* e.md: " \n", nothing but whitespace
EmptyMd == FileOf(<<"e", ".", "m", "d">>, <<"SP", "LF">>, <<>>, <<>>, <<>>, 2)

\* d.pdf: two pages read as "a" and "b\r\n"
DocPdf == FileOf(<<"d", ".", "p", "d", "f">>, <<>>, <<<<"a">>, <<"b", "CR", "LF">>>>, <<>>, <<>>, 3)

\* I.PNG: read as "hi"
ScanPng == FileOf(<<"I", ".", "P", "N", "G">>, <<>>, <<<<"h", "i">>>>, <<>>, <<>>, 4)

\* t.csv: "a,b", a blank line, "1, 2"
TableCsv ==
    FileOf(<<"t", ".", "c", "s", "v">>, <<>>, <<>>,
           <<<<<<"a">>, <<"b">>>>, <<>>, <<<<"1">>, <<"SP", "2">>>>>>, <<>>, 5)

\* a.xls: sheet b.csv with one row under the header k, sheet s with an empty
\* row and a row under the headers "" and n
BookXls ==
    FileOf(<<"a", ".", "x", "l", "s">>, <<>>, <<>>, <<>>,
           << [name |-> <<"b", ".", "c", "s", "v">>, columns |-> <<<<"k">>>>, rows |-> <<<<<<"v">>>>>>],
              [name |-> <<"s">>, columns |-> <<<<>>, <<"n">>>>,
               rows |-> <<<<<<>>, <<"n", "a", "n">>>>, <<<<"w">>, <<>>>>>>] >>, 6)

\* A CSV file named "a.xls sheet:b.csv" with the one row "x"
OddCsv ==
    FileOf(<<"a", ".", "x", "l", "s", "SP", "s", "h", "e", "e", "t", ":", "b", ".", "c", "s", "v">>,
           <<>>, <<>>, <<<<<<"x">>>>>>, <<>>, 7)

\* r.bin: not a supported type
RawBin == FileOf(<<"r", ".", "b", "i", "n">>, <<>>, <<>>, <<>>, <<>>, 8)

\* The folders ingest_folder is given, each in the order os.walk lists it.
Folders ==
    { <<RawBin>>,
      <<EmptyMd, RawBin>>,
      <<NoteTxt>>,
      <<DocPdf, TableCsv>>,
      <<ScanPng, EmptyMd, BookXls>>,
      <<BookXls, OddCsv>> }

\* ------------------------------------------------ pipeline: external services

\* The vector the embedding model returns for a text.  The model is not part of
\* the program: its reply is kept as the application of an unknown function.
Embedding(text) == <<"embedding", text>>

\* A slip: the vectors come back in reverse order.
embed_reversed(texts) == [i \in 1..Len(texts) |-> Embedding(texts[Len(texts) + 1 - i])]

\* OllamaEmbedder.embed: one vector per text, in the order of the texts.
embed(texts) == [i \in 1..Len(texts) |-> Embedding(texts[i])]

\* What FaissStore.search may return on an index of n vectors: top_k labels,
\* min(n, top_k) different positions in any order (the order of the scores),
\* then -1 for every result that does not exist.
SearchResults(n, top_k) ==
    {r \in [1..top_k -> -1..n - 1] :
        /\ \A i \in 1..top_k : (r[i] >= 0) = (i <= Min(n, top_k))
        /\ \A i, j \in 1..top_k : (i # j /\ r[i] >= 0) => r[i] # r[j]}

\* A slip: position 0 is dropped with the negative labels.
KeptIndexPositive(i) == i > 0

\* Line 409: "if i >= 0".
KeptIndex(i) == i >= 0

\* Line 409: [self.meta[i] for i in idxs if i >= 0], when no lookup raises.
Contexts(metaList, idxs) ==
    LET kept == SelectSeq(idxs, KeptIndex)
    IN  [k \in 1..Len(kept) |-> metaList[kept[k] + 1]]

\* Line 409 raises IndexError when a kept label is no position of self.meta.
LookupRaises(metaList, idxs) ==
    \E k \in 1..Len(idxs) : KeptIndex(idxs[k]) /\ idxs[k] >= Len(metaList)

Fallback == "I don't know (not in RAG folder)."

\* ------------------------------------------------------ pipeline: storage

\* A file of the store: absent, written whole, or cut short by a failed write.
Absent(empty) == [state |-> "absent", data |-> empty]

Stored(data) == [state |-> "ok", data |-> data]

Corrupt(empty) == [state |-> "corrupt", data |-> empty]

\* prev[rel] = {"sha256": file_hash}
PutHash(m, rel, sha) == {e \in m : e.rel # rel} \cup {[rel |-> rel, sha256 |-> sha]}

\* A slip: the loop saves the manifest after every file.
ManifestOnDiskAfterFileSaved(onDisk, inMemory) == Stored(inMemory)

\* Lines 266-270 update the manifest in memory only: the file on disk stays.
ManifestOnDiskAfterFile(onDisk, inMemory) == onDisk

\* A slip: the check for extracted text is missing.
NoTextExtractedNever(chunks) == FALSE

\* Line 376: "if not all_chunks".
NoTextExtracted(chunks) == chunks = <<>>

\* ------------------------------------------------------------------- state

VARIABLES
    n_in,           \* SpecNorm: the raw text
    n_out,          \* SpecNorm: the results of the successive normalize_ws calls
    c_text,         \* SpecChunk: chunk_text's argument text
    c_chunk_chars,  \* SpecChunk: chunk_text's argument chunk_chars
    c_overlap,      \* SpecChunk: chunk_text's argument overlap
    c_pc,           \* SpecChunk: "call", "while" (at the loop head), "ret"
    c_norm,         \* SpecChunk: the local text after normalize_ws
    c_start,        \* SpecChunk: the local start
    c_chunks,       \* SpecChunk: the local chunks
    imports,        \* the optional modules that imported: lines 14-23
    diskIndex,      \* work_dir/faiss.index
    diskMeta,       \* work_dir/meta.pkl
    diskManifest,   \* work_dir/manifest.json
    storeIndex,     \* self.store.index: state "none", or "ok" with the vectors
    selfMeta,       \* self.meta
    pc,             \* "idle"; inside ingest_folder "loop", "embed", "save_index",
                    \* "save_meta", "save_manifest"; "returned" / "raised" once
                    \* ingest_folder has ended, until the next call begins
    err,            \* why ingest_folder raised
    files,          \* ingest_folder's local files
    fi,             \* position in files of the file the loop is at (from 1)
    all_chunks,     \* ingest_folder's local all_chunks
    meta,           \* ingest_folder's local meta
    manifest,       \* ingest_folder's local manifest["files"] (prev is the same dict)
    disk0,          \* history: the three files as they were when ingest_folder began
    runs,           \* history: the ingest_folder calls so far
    log,            \* history: how the last two ingest_folder / load calls ended
    qres            \* what the last query did, until the next call begins

normVars == <<n_in, n_out>>

chunkVars == <<c_text, c_chunk_chars, c_overlap, c_pc, c_norm, c_start, c_chunks>>

diskVars == <<diskIndex, diskMeta, diskManifest>>

memVars == <<storeIndex, selfMeta>>

localVars == <<files, fi, all_chunks, meta, manifest>>

pipeVars == <<imports, diskVars, memVars, pc, err, localVars, disk0, runs, log, qres>>

vars == <<normVars, chunkVars, pipeVars>>

NormIdle == n_in = <<>> /\ n_out = <<>>

ChunkIdle ==
    /\ c_text = <<>> /\ c_chunk_chars = 1 /\ c_overlap = 0
    /\ c_pc = "ret" /\ c_norm = <<>> /\ c_start = 0 /\ c_chunks = <<>>

NoSnapshot == [index |-> Absent(<<>>), meta |-> Absent(<<>>), manifest |-> Absent({})]

NoQuery == [searched |-> FALSE, idxs |-> <<>>, out |-> "none", qa_calls |-> 0, qa_contexts |-> <<>>]

NoLocals == files = <<>> /\ fi = 0 /\ all_chunks = <<>> /\ meta = <<>> /\ manifest = {}

\* A new RAGPipeline over an empty work_dir, both optional modules imported.
PipeIdle ==
    /\ imports = {"pdf2image", "pandas"}
    /\ diskIndex = Absent(<<>>) /\ diskMeta = Absent(<<>>) /\ diskManifest = Absent({})
    /\ storeIndex = [state |-> "none", data |-> <<>>] /\ selfMeta = <<>>
    /\ pc = "idle" /\ err = "none" /\ NoLocals
    /\ disk0 = NoSnapshot /\ runs = 0 /\ log = <<"none", "none">> /\ qres = NoQuery

\* ---------------------------------------------------------------- SpecNorm

InitNorm ==
    /\ n_in \in StringsUpTo(NormAlphabet, MaxNormLen)
    /\ n_out = <<>>
    /\ ChunkIdle
    /\ PipeIdle

\* One call of normalize_ws: on the raw text first, then on the previous result.
Normalize ==
    /\ Len(n_out) < 2
    /\ n_out' = Append(n_out, normalize_ws(IF n_out = <<>> THEN n_in ELSE n_out[Len(n_out)]))
    /\ UNCHANGED <<n_in, chunkVars, pipeVars>>

NextNorm == Normalize

SpecNorm == InitNorm /\ [][NextNorm]_vars

\* --------------------------------------------------------------- SpecChunk

InitChunk ==
    /\ c_text \in StringsUpTo(ChunkAlphabet, MaxTextLen)
    /\ c_chunk_chars \in 1..MaxChunkChars
    /\ c_overlap \in 0..MaxOverlap
    /\ c_pc = "call"
    /\ c_norm = <<>>
    /\ c_start = 0
    /\ c_chunks = <<>>
    /\ NormIdle
    /\ PipeIdle

\* Lines 60-64: normalize, return [] on empty text, else enter the loop.
ChunkEnter ==
    /\ c_pc = "call"
    /\ c_norm' = normalize_ws(c_text)
    /\ c_pc' = IF c_norm' = <<>> THEN "ret" ELSE "while"
    /\ c_start' = 0
    /\ c_chunks' = <<>>
    /\ UNCHANGED <<c_text, c_chunk_chars, c_overlap, normVars, pipeVars>>

\* Lines 65-70: one evaluation of the loop condition and, when it holds, of the body.
ChunkWhile ==
    /\ c_pc = "while"
    /\ Len(c_chunks) < MaxChunks
    /\ IF c_start < Len(c_norm)
       THEN LET end == WindowEnd(Len(c_norm), c_start, c_chunk_chars)
            IN  /\ c_chunks' = Append(c_chunks, Slice(c_norm, c_start, end))
                /\ IF end = Len(c_norm)
                   THEN c_pc' = "ret" /\ c_start' = c_start
                   ELSE c_pc' = "while" /\ c_start' = NextStart(end, c_overlap)
       ELSE c_pc' = "ret" /\ UNCHANGED <<c_start, c_chunks>>
    /\ UNCHANGED <<c_text, c_chunk_chars, c_overlap, c_norm, normVars, pipeVars>>

NextChunk == ChunkEnter \/ ChunkWhile

SpecChunk == InitChunk /\ [][NextChunk]_vars

\* -------------------------------------------------------------------- Spec

\* A new RAGPipeline (line 201-208).  Both optional modules imported or both
\* missing; work_dir is empty, or holds an index with no vector and its empty
\* metadata list put there by another tool.
Init ==
    /\ imports \in {{}, {"pdf2image", "pandas"}}
    /\ \/ diskIndex = Absent(<<>>) /\ diskMeta = Absent(<<>>)
       \/ diskIndex = Stored(<<>>) /\ diskMeta = Stored(<<>>)
    /\ diskManifest = Absent({})
    /\ storeIndex = [state |-> "none", data |-> <<>>] /\ selfMeta = <<>>
    /\ pc = "idle" /\ err = "none" /\ NoLocals
    /\ disk0 = NoSnapshot /\ runs = 0 /\ log = <<"none", "none">> /\ qres = NoQuery
    /\ NormIdle /\ ChunkIdle

\* No call is running: ingest_folder, load or query may be called.
CanStart == pc \in {"idle", "returned", "raised"}

Snapshot == [index |-> diskIndex, meta |-> diskMeta, manifest |-> diskManifest]

ClearLocals ==
    /\ files' = <<>> /\ fi' = 0 /\ all_chunks' = <<>> /\ meta' = <<>> /\ manifest' = {}
    /\ disk0' = NoSnapshot /\ err' = "none"

\* ingest_folder raises: its locals stay as they were at the raise.
Raise(kind) ==
    /\ pc' = "raised"
    /\ err' = kind
    /\ log' = <<log[2], "ingest_err">>

\* Lines 238-240: the folder is no directory.
IngestMissingFolder ==
    /\ CanStart /\ runs < MaxRuns
    /\ runs' = runs + 1
    /\ files' = <<>> /\ fi' = 0 /\ all_chunks' = <<>> /\ meta' = <<>> /\ manifest' = {}
    /\ disk0' = Snapshot
    /\ qres' = NoQuery
    /\ Raise("FileNotFoundError")
    /\ UNCHANGED <<imports, diskVars, memVars, normVars, chunkVars>>

\* Lines 238-264: load the manifest, walk the folder, raise when no file is of
\* a supported type, else enter the loop.
IngestBegin ==
    /\ CanStart /\ runs < MaxRuns
    /\ \E folder \in Folders :
        LET found == SelectSeq(folder, LAMBDA f : Supported(f.name))
        IN  /\ runs' = runs + 1
            /\ disk0' = Snapshot
            /\ qres' = NoQuery
            /\ all_chunks' = <<>> /\ meta' = <<>>
            /\ IF diskManifest.state = "corrupt"
               THEN /\ files' = <<>> /\ fi' = 0 /\ manifest' = {}
                    /\ Raise("ManifestError")
               ELSE /\ manifest' = diskManifest.data
                    /\ files' = found
                    /\ IF found = <<>>
                       THEN fi' = 0 /\ Raise("NoFiles")
                       ELSE fi' = 1 /\ pc' = "loop" /\ UNCHANGED <<err, log>>
    /\ UNCHANGED <<imports, diskVars, memVars, normVars, chunkVars>>

\* The optional module the branch of a file needs (lines 273, 341).
MissingDependency(f) ==
    \/ FileType(f.name) = "pdf" /\ "pdf2image" \notin imports
    \/ FileType(f.name) = "excel" /\ "pandas" \notin imports

\* Lines 266-374, one file: record its hash in the manifest, extract, append
\* the chunks and their records.
ProcessFile ==
    /\ pc = "loop" /\ fi <= Len(files)
    /\ ~MissingDependency(files[fi])
    /\ LET f == files[fi]
           recs == FileRecords(f)
       IN  /\ manifest' = PutHash(manifest, RelOf(f.name), f.sha)
           /\ diskManifest' = ManifestOnDiskAfterFile(diskManifest, manifest')
           /\ all_chunks' = all_chunks \o [k \in 1..Len(recs) |-> recs[k].text]
           /\ meta' = meta \o recs
           /\ fi' = fi + 1
    /\ UNCHANGED <<imports, diskIndex, diskMeta, memVars, pc, err, files, disk0, runs,
                   log, qres, normVars, chunkVars>>

\* Lines 266-374, one file, raising after line 270: the optional module is
\* missing, or reading the file or the OCR call fails.
ProcessFileRaise ==
    /\ pc = "loop" /\ fi <= Len(files)
    /\ LET f == files[fi]
       IN  /\ manifest' = PutHash(manifest, RelOf(f.name), f.sha)
           /\ diskManifest' = ManifestOnDiskAfterFile(diskManifest, manifest')
           /\ Raise(IF MissingDependency(f) THEN "MissingDependency" ELSE "ClientError")
    /\ UNCHANGED <<imports, diskIndex, diskMeta, memVars, files, fi, all_chunks, meta,
                   disk0, runs, qres, normVars, chunkVars>>

\* Lines 376-377, after the last file.
CheckChunks ==
    /\ pc = "loop" /\ fi > Len(files)
    /\ IF NoTextExtracted(all_chunks)
       THEN Raise("NoText")
       ELSE pc' = "embed" /\ UNCHANGED <<err, log>>
    /\ UNCHANGED <<imports, diskVars, memVars, localVars, disk0, runs, qres,
                   normVars, chunkVars>>

\* Lines 379-381: embed every chunk, build the index, replace self.meta.
EmbedAndBuild ==
    /\ pc = "embed"
    /\ storeIndex' = [state |-> "ok", data |-> embed(all_chunks)]
    /\ selfMeta' = meta
    /\ pc' = "save_index"
    /\ UNCHANGED <<imports, diskVars, err, localVars, disk0, runs, log, qres,
                   normVars, chunkVars>>

\* Line 379 raising: an embedding call fails.
EmbedRaise ==
    /\ pc = "embed"
    /\ Raise("ClientError")
    /\ UNCHANGED <<imports, diskVars, memVars, localVars, disk0, runs, qres,
                   normVars, chunkVars>>

\* Line 386.
SaveIndex ==
    /\ pc = "save_index"
    /\ diskIndex' = Stored(storeIndex.data)
    /\ pc' = "save_meta"
    /\ UNCHANGED <<imports, diskMeta, diskManifest, memVars, err, localVars, disk0,
                   runs, log, qres, normVars, chunkVars>>

\* Line 386 raising: the file is left as it was or cut short.
SaveIndexRaise ==
    /\ pc = "save_index"
    /\ diskIndex' \in {diskIndex, Corrupt(<<>>)}
    /\ Raise("WriteError")
    /\ UNCHANGED <<imports, diskMeta, diskManifest, memVars, localVars, disk0, runs,
                   qres, normVars, chunkVars>>

\* Lines 387-388.
SaveMeta ==
    /\ pc = "save_meta"
    /\ diskMeta' = Stored(selfMeta)
    /\ pc' = "save_manifest"
    /\ UNCHANGED <<imports, diskIndex, diskManifest, memVars, err, localVars, disk0,
                   runs, log, qres, normVars, chunkVars>>

\* Lines 387-388 raising.
SaveMetaRaise ==
    /\ pc = "save_meta"
    /\ diskMeta' \in {diskMeta, Corrupt(<<>>)}
    /\ Raise("WriteError")
    /\ UNCHANGED <<imports, diskIndex, diskManifest, memVars, localVars, disk0, runs,
                   qres, normVars, chunkVars>>

\* Lines 390-395: write the manifest; ingest_folder returns.
SaveManifest ==
    /\ pc = "save_manifest"
    /\ diskManifest' = Stored(manifest)
    /\ pc' = "returned"
    /\ log' = <<log[2], "ingest_ok">>
    /\ UNCHANGED <<imports, diskIndex, diskMeta, memVars, err, localVars, disk0, runs,
                   qres, normVars, chunkVars>>

\* Line 391 raising.
SaveManifestRaise ==
    /\ pc = "save_manifest"
    /\ diskManifest' \in {diskManifest, Corrupt({})}
    /\ Raise("ManifestWriteError")
    /\ UNCHANGED <<imports, diskIndex, diskMeta, memVars, localVars, disk0, runs,
                   qres, normVars, chunkVars>>

\* RAGPipeline.load, lines 397-404.
Load ==
    /\ CanStart
    /\ ClearLocals
    /\ pc' = "idle"
    /\ qres' = NoQuery
    /\ IF diskIndex.state = "absent" \/ diskMeta.state = "absent" \/ diskIndex.state = "corrupt"
       THEN log' = <<log[2], "load_err">> /\ UNCHANGED memVars
       ELSE /\ storeIndex' = [state |-> "ok", data |-> diskIndex.data]
            /\ IF diskMeta.state = "corrupt"
               THEN log' = <<log[2], "load_err">> /\ UNCHANGED selfMeta
               ELSE log' = <<log[2], "load_ok">> /\ selfMeta' = diskMeta.data
    /\ UNCHANGED <<imports, diskVars, runs, normVars, chunkVars>>

\* RAGPipeline.query, lines 406-412, the question embedded and the index
\* searched; "answer" stands for whatever the answer client replies.
Query ==
    /\ CanStart
    /\ storeIndex.state = "ok"
    /\ ClearLocals
    /\ pc' = "idle"
    /\ \E idxs \in SearchResults(Len(storeIndex.data), CfgTopK) :
        qres' = IF LookupRaises(selfMeta, idxs)
                THEN [searched |-> TRUE, idxs |-> idxs, out |-> "IndexError",
                      qa_calls |-> 0, qa_contexts |-> <<>>]
                ELSE IF Contexts(selfMeta, idxs) = <<>>
                THEN [searched |-> TRUE, idxs |-> idxs, out |-> Fallback,
                      qa_calls |-> 0, qa_contexts |-> <<>>]
                ELSE [searched |-> TRUE, idxs |-> idxs, out |-> "answer",
                      qa_calls |-> 1, qa_contexts |-> Contexts(selfMeta, idxs)]
    /\ UNCHANGED <<imports, diskVars, memVars, runs, log, normVars, chunkVars>>

\* Line 407 or 408 raising: the embedding call fails, or no index was built or
\* loaded (self.store.index is None).
QueryRaise ==
    /\ CanStart
    /\ ClearLocals
    /\ pc' = "idle"
    /\ qres' = [NoQuery EXCEPT !.out = "error"]
    /\ UNCHANGED <<imports, diskVars, memVars, runs, log, normVars, chunkVars>>

\* The process ends and a new one builds a new RAGPipeline over the same work_dir.
Restart ==
    /\ CanStart
    /\ ClearLocals
    /\ pc' = "idle"
    /\ qres' = NoQuery
    /\ storeIndex' = [state |-> "none", data |-> <<>>]
    /\ selfMeta' = <<>>
    /\ UNCHANGED <<imports, diskVars, runs, log, normVars, chunkVars>>

Next ==
    \/ IngestMissingFolder
    \/ IngestBegin
    \/ ProcessFile
    \/ ProcessFileRaise
    \/ CheckChunks
    \/ EmbedAndBuild
    \/ EmbedRaise
    \/ SaveIndex
    \/ SaveIndexRaise
    \/ SaveMeta
    \/ SaveMetaRaise
    \/ SaveManifest
    \/ SaveManifestRaise
    \/ Load
    \/ Query
    \/ QueryRaise
    \/ Restart

Spec == Init /\ [][Next]_vars

\* ------------------------------------------------- claims about the text functions

CeilDiv(a, b) == (a + b - 1) \div b

\* No run of blanks longer than one, no tab, no carriage return, no run of three
\* newlines, no whitespace at either end.
IsNormalForm(s) ==
    /\ \A i \in 1..Len(s) : s[i] \notin {"TAB", "CR"}
    /\ \A i \in 1..Len(s) - 1 : ~(s[i] = "SP" /\ s[i + 1] = "SP")
    /\ \A i \in 1..Len(s) - 2 : ~(s[i] = "LF" /\ s[i + 1] = "LF" /\ s[i + 2] = "LF")
    /\ s # <<>> => (s[1] \notin Whitespace /\ s[Len(s)] \notin Whitespace)

\* C5: normalize_ws is idempotent: a second call returns the first call's result
\* unchanged, and the first result holds no run of blanks, no tab, no carriage
\* return, no run of three newlines and no outer whitespace for a second call
\* to change.
NormalizeIdempotent ==
    /\ Len(n_out) >= 1 => IsNormalForm(n_out[1])
    /\ Len(n_out) = 2 => n_out[2] = n_out[1]

\* C5 witness: two calls were made on a text that starts with whitespace, the
\* first call shortened it, and a newline survives inside the result.
NormalizeTwiceWitness ==
    /\ Len(n_out) = 2
    /\ n_in # <<>> /\ n_in[1] \in Whitespace
    /\ Len(n_out[1]) < Len(n_in)
    /\ \E i \in 1..Len(n_out[1]) : n_out[1][i] = "LF"

\* The call has returned and its parameters satisfy 0 <= overlap < chunk_chars.
ChunkReturned == c_pc = "ret" /\ c_overlap < c_chunk_chars

\* C1: on a normalized text of length L with 0 <= O < C, chunk i (from 0) is the
\* substring from offset i*(C-O) to min(L, i*(C-O)+C), every chunk but the last
\* has length C, the last chunk ends at L, and every character lies in a chunk.
ChunkContract ==
    (ChunkReturned /\ c_text = normalize_ws(c_text)) =>
        LET L == Len(c_text)
            step == c_chunk_chars - c_overlap
            n == Len(c_chunks)
        IN  /\ \A i \in 1..n :
                  c_chunks[i] = Slice(c_text, Min(L, (i - 1) * step),
                                      Min(L, (i - 1) * step + c_chunk_chars))
            /\ \A i \in 1..n - 1 : Len(c_chunks[i]) = c_chunk_chars
            /\ n > 0 => (n - 1) * step + Len(c_chunks[n]) = L
            /\ \A p \in 1..L :
                  \E i \in 1..n : (i - 1) * step < p /\ p <= (i - 1) * step + Len(c_chunks[i])

\* C1 witness: a normalized text cut with a positive overlap into at least three
\* chunks, the last one shorter than chunk_chars.
ChunkContractWitness ==
    /\ ChunkReturned /\ c_text = normalize_ws(c_text)
    /\ c_overlap > 0
    /\ Len(c_chunks) >= 3
    /\ Len(c_chunks[Len(c_chunks)]) < c_chunk_chars

\* C2 as stated: for a text of length L, C > 0 and 0 <= O < C the call returns
\* ceil((L-O)/(C-O)) chunks when L > O and one chunk for every L <= O.
ChunkCountOfRawLength ==
    ChunkReturned =>
        Len(c_chunks) = IF Len(c_text) > c_overlap
                        THEN CeilDiv(Len(c_text) - c_overlap, c_chunk_chars - c_overlap)
                        ELSE 1

\* C2 amended: with L the length of the text after normalize_ws, the call
\* returns no chunk when L = 0, ceil((L-O)/(C-O)) chunks when L > O, and one
\* chunk when 1 <= L <= O.
ChunkCountOfNormalizedLength ==
    ChunkReturned =>
        LET L == Len(normalize_ws(c_text))
        IN  Len(c_chunks) = IF L = 0 THEN 0
                            ELSE IF L > c_overlap
                                 THEN CeilDiv(L - c_overlap, c_chunk_chars - c_overlap)
                                 ELSE 1

\* C2 witness: a text that normalize_ws shortens, cut with a positive overlap
\* into at least two chunks.
ChunkCountWitness ==
    /\ ChunkReturned
    /\ c_overlap > 0
    /\ Len(normalize_ws(c_text)) < Len(c_text)
    /\ Len(c_chunks) >= 2

\* C3 as stated: for every chunk_chars > 0 and overlap >= 0, overlap >=
\* chunk_chars included, each iteration that goes round the loop again moves the
\* window start forward by at least one character.
ChunkStartAdvances ==
    [][(c_pc = "while" /\ c_pc' = "while") => c_start' > c_start]_vars

\* C4: with 0 <= O < C, the last O characters of a chunk are the first O
\* characters of the next chunk, and the next chunk is longer than O.
ChunkOverlap ==
    ChunkReturned =>
        \A i \in 1..Len(c_chunks) - 1 :
            /\ Len(c_chunks[i + 1]) > c_overlap
            /\ Len(c_chunks[i]) >= c_overlap
            /\ Slice(c_chunks[i], Len(c_chunks[i]) - c_overlap, Len(c_chunks[i]))
                   = Slice(c_chunks[i + 1], 0, c_overlap)

\* C4 witness: at least three chunks with a positive overlap, the first two
\* chunks different texts.
ChunkOverlapWitness ==
    /\ ChunkReturned
    /\ c_overlap > 0
    /\ Len(c_chunks) >= 3
    /\ c_chunks[1] # c_chunks[2]

\* ------------------------------------------------- claims about the pipeline

InRun == pc \in {"loop", "embed", "save_index", "save_meta", "save_manifest"}

\* One vector per record, the vector at each position the embedding of the
\* text of the record at that position.
Aligned(index, records) ==
    /\ Len(index) = Len(records)
    /\ \A i \in 1..Len(records) : index[i] = Embedding(records[i].text)

\* C6 as stated: within one ingest_folder run no two metadata records carry the
\* same citation tag.
TagsUnique ==
    \A i, j \in 1..Len(meta) : i # j => meta[i].tag # meta[j].tag

\* C7: all_chunks and meta grow in lockstep, record i holding chunk i; when
\* ingest_folder has returned, and after a load that follows it, the index
\* (in memory and on disk) holds one vector per metadata record, the vector at
\* position i the embedding of the text of record i.
IndexMetaAligned ==
    /\ Len(all_chunks) = Len(meta)
    /\ \A i \in 1..Len(meta) : meta[i].text = all_chunks[i]
    /\ pc = "returned" =>
          /\ storeIndex.state = "ok" /\ Aligned(storeIndex.data, selfMeta)
          /\ diskIndex.state = "ok" /\ diskMeta.state = "ok"
          /\ Aligned(diskIndex.data, diskMeta.data)
    /\ (log = <<"ingest_ok", "load_ok">> /\ storeIndex.state = "ok") =>
          Aligned(storeIndex.data, selfMeta)

\* C7 witness: a load after a successful ingest_folder has put back an index of
\* at least three vectors over records whose texts are not all the same.
AlignedAfterLoadWitness ==
    /\ log = <<"ingest_ok", "load_ok">>
    /\ pc = "idle"
    /\ storeIndex.state = "ok" /\ Len(storeIndex.data) >= 3
    /\ selfMeta[1].text # selfMeta[2].text

\* C8: an ingest_folder call that ends without a single chunk (no supported
\* file, or no text in the supported files) has raised and left the three files
\* as they were when it began; and an index written by a call holds a vector.
EmptyIngestWritesNothing ==
    /\ (pc \in {"returned", "raised"} /\ all_chunks = <<>>) =>
          /\ pc = "raised"
          /\ Snapshot = disk0
    /\ (pc # "idle" /\ diskIndex # disk0.index /\ diskIndex.state = "ok") =>
          diskIndex.data # <<>>

\* C8 witness: over a store a previous run wrote, a call on a folder whose
\* supported files hold no text raised "No text extracted".
EmptyIngestWitness ==
    /\ pc = "raised" /\ err = "NoText"
    /\ files # <<>>
    /\ disk0.index.state = "ok" /\ disk0.index.data # <<>>
    /\ disk0.manifest.state = "ok"

\* The query searched and every label it got back is negative.
NoValidIndex == qres.searched /\ \A k \in 1..Len(qres.idxs) : qres.idxs[k] < 0

\* The query searched and some label it got back is not negative.
SomeValidIndex == qres.searched /\ \E k \in 1..Len(qres.idxs) : qres.idxs[k] >= 0

\* The metadata records of the non-negative labels are exactly what the answer
\* client was given, in the order of the search.
GivenValidRecords ==
    LET valid == SelectSeq(qres.idxs, LAMBDA i : i >= 0)
    IN  /\ Len(qres.qa_contexts) = Len(valid)
        /\ \A k \in 1..Len(valid) : qres.qa_contexts[k] = selfMeta[valid[k] + 1]

\* C9 as stated: no valid index: the fallback string and no call of the answer
\* client; some valid index: exactly one call, with the metadata records of the
\* valid indices in search order.
QueryAnswersOrFallsBack ==
    /\ NoValidIndex => (qres.out = Fallback /\ qres.qa_calls = 0)
    /\ SomeValidIndex => (qres.qa_calls = 1 /\ GivenValidRecords)

\* C9 amended: as stated when every non-negative index is a position of the
\* metadata list; when one is not (index and metadata written by different
\* runs), the query raises and the answer client is not invoked.
QueryAnswersWithinMeta ==
    /\ NoValidIndex => (qres.out = Fallback /\ qres.qa_calls = 0)
    /\ (SomeValidIndex /\ \A k \in 1..Len(qres.idxs) : qres.idxs[k] < Len(selfMeta)) =>
          (qres.qa_calls = 1 /\ GivenValidRecords)
    /\ (SomeValidIndex /\ \E k \in 1..Len(qres.idxs) : qres.idxs[k] >= Len(selfMeta)) =>
          (qres.qa_calls = 0 /\ qres.out = "IndexError")

\* C9 witness: a query whose search gave two valid indices, position 0 second,
\* and the answer client was called with two different records.
QueryAnswerWitness ==
    /\ qres.searched /\ Len(qres.idxs) >= 2
    /\ qres.idxs[1] > 0 /\ qres.idxs[2] = 0
    /\ qres.qa_calls = 1
    /\ qres.qa_contexts[1] # qres.qa_contexts[2]

\* The manifest entry of rel, 0 when there is none.
HashOf(m, rel) ==
    IF \E e \in m : e.rel = rel THEN (CHOOSE e \in m : e.rel = rel).sha256 ELSE 0

\* C10: inside a run, and after a run that raised before the manifest write,
\* manifest.json is as it was when the run began, while the manifest in memory
\* holds the hash of every file the loop has processed; when the run has
\* returned, manifest.json holds the manifest in memory, and the index and
\* metadata files hold the index and metadata of that run.
ManifestWrittenLast ==
    /\ InRun => diskManifest = disk0.manifest
    /\ (pc = "raised" /\ err # "ManifestWriteError") => diskManifest = disk0.manifest
    /\ (InRun \/ pc \in {"returned", "raised"}) =>
          \A k \in 1..Min(fi - 1, Len(files)) :
              HashOf(manifest, RelOf(files[k].name)) = files[k].sha
    /\ pc = "returned" =>
          /\ diskManifest = Stored(manifest)
          /\ diskIndex = Stored(embed(all_chunks))
          /\ diskMeta = Stored(meta)

\* C10 witness: a run over a store that has a manifest raised at the index or
\* metadata write; the manifest in memory has entries manifest.json has not.
ManifestUnchangedWitness ==
    /\ pc = "raised" /\ err = "WriteError"
    /\ disk0.manifest.state = "ok"
    /\ diskManifest = disk0.manifest
    /\ manifest # diskManifest.data

====
